---- MODULE Spec2Model ----
(***************************************************************************)
(* Model of the LRCLIB lyrics plugin (src/lrcget.py): the request issuers  *)
(* get_lyrics / search_lyrics, the response callback process_response with *)
(* its two modal suspension points (search picker, overwrite confirmation),*)
(* and the two lyrics stores of every linked file (the embedded "lyrics"   *)
(* tag and the .lrc sidecar).                                              *)
(***************************************************************************)
EXTENDS Integers, Sequences, FiniteSets, TLC

\* ------------------------------------------------------------------ bounds
\* number of files linked to the track
NumFiles == 2
\* number of lookups issued in one behaviour
MaxRequests == 2

\* ------------------------------------------------------------------ values
\* a dict key that is missing / a file that does not exist
Absent == "<absent>"
\* Python None
Null == "<None>"

\* Python truthiness of a string-or-None value
Truthy(v) == v \notin {Absent, Null, ""}

Files == 1..NumFiles

\* track.linked_files, in list order
linked_files == [i \in 1..NumFiles |-> i]

\* distinct texts for the stores of the files, so that a text can be traced
EmbTexts == <<"E1", "E2", "E3", "E4">>
LrcTexts == <<"X1", "X2", "X3", "X4">>

Methods == {"get", "search", "search_on_load"}

\* JSON objects returned by /api/get, and records of an /api/search array.
\* id: the "id" key is present and truthy; plain = Absent: key missing.
\* Found records: both texts, plain only, both empty, both null (an
\* instrumental track), and a record without the plainLyrics key.
FoundResponses ==
    {[kind |-> "dict", id |-> TRUE, synced |-> "S", plain |-> "P"],
     [kind |-> "dict", id |-> TRUE, synced |-> "", plain |-> "P"],
     [kind |-> "dict", id |-> TRUE, synced |-> "", plain |-> ""],
     [kind |-> "dict", id |-> TRUE, synced |-> Null, plain |-> Null],
     [kind |-> "dict", id |-> TRUE, synced |-> "", plain |-> Absent]}

\* JSON objects without an id: an error document that happens to carry
\* lyrics keys, and the object of the spec's scenario D
IdlessResponses ==
    {[kind |-> "dict", id |-> FALSE, synced |-> "S", plain |-> "P"],
     [kind |-> "dict", id |-> FALSE, synced |-> "", plain |-> ""]}

\* the JSON object {}
EmptyDict == [kind |-> "emptydict", id |-> FALSE, synced |-> Null, plain |-> Absent]
\* a JSON array (the reply of /api/search)
ListResponse == [kind |-> "list", id |-> FALSE, synced |-> Null, plain |-> Absent]
\* no document (delivered together with a transport error)
NoResponse == [kind |-> "null", id |-> FALSE, synced |-> Null, plain |-> Absent]

\* what comes with a transport or HTTP error: nothing, or the error document
ErrorResponses == {NoResponse} \cup IdlessResponses
\* what the web service can hand to the callback of a direct lookup
GetResponses == FoundResponses \cup IdlessResponses \cup {EmptyDict}
\* a row of the search table: search results carry an id
Candidates == FoundResponses

\* outcome of the file system for one file during one run of the handler:
\* reading its sidecar raises, or opening its sidecar for writing raises
IOOutcomes == {"ok", "rfail", "wfail"}

VARIABLES
    emb,        \* emb[f]: file.metadata["lyrics"] (Absent: tag not set)
    lrc,        \* lrc[f]: content of the sidecar file (Absent: no file)
    setting,    \* config.setting: search_on_load, auto_overwrite, save_lrc_file
    requests,   \* album._requests
    finalized,  \* number of calls of album._finalize_loading
    issued,     \* number of lookups handed to the web service
    calls,      \* calls[c]: the callback bound to lookup c and its position
    stack,      \* modal dialogs that are open, innermost last
    last,       \* the most recent run of a handler: what it saw and did
    dur         \* a duration on its way through format_durasi and parse_duration

vars == <<emb, lrc, setting, requests, finalized, issued, calls, stack, last, dur>>

\* ----------------------------------------------------------- duration codec
\* A string is a sequence of one-character strings.

Digits == <<"0", "1", "2", "3", "4", "5", "6", "7", "8", "9">>

\* str(n) for a non-negative integer
RECURSIVE Str(_)
Str(n) ==
    IF n < 10 THEN <<Digits[n + 1]>>
    ELSE Str(n \div 10) \o <<Digits[(n % 10) + 1]>>

\* the format specification :02
Pad2(n) == IF n < 10 THEN <<"0">> \o Str(n) ELSE Str(n)

\* faulty variant: the hours are not taken out of the minutes
format_durasi_NoMod(durasi) ==
    LET menit == IF durasi >= 60 THEN durasi \div 60 ELSE 0
        detik == IF durasi >= 60 THEN durasi % 60 ELSE durasi
    IN IF durasi >= 3600
       THEN Str(durasi \div 3600) \o <<":">> \o Pad2(menit) \o <<":">> \o Pad2(detik)
       ELSE Str(menit) \o <<":">> \o Pad2(detik)

\* lines 48-64
format_durasi(durasi) ==
    LET jam == durasi \div 3600
        donat == IF durasi >= 3600 THEN durasi % 3600 ELSE durasi
        menit == IF donat >= 60 THEN donat \div 60 ELSE 0
        detik == IF donat >= 60 THEN donat % 60 ELSE donat
    IN IF durasi >= 3600
       THEN Str(jam) \o <<":">> \o Pad2(menit) \o <<":">> \o Pad2(detik)
       ELSE Str(menit) \o <<":">> \o Pad2(detik)

\* str.strip(): blanks at both ends are dropped
RECURSIVE strip(_)
strip(t) ==
    IF t = << >> THEN t
    ELSE IF Head(t) = " " THEN strip(Tail(t))
    ELSE IF t[Len(t)] = " " THEN strip(SubSeq(t, 1, Len(t) - 1))
    ELSE t

\* str.split(":"): the pieces between the colons, empty ones included
RECURSIVE split(_)
split(t) ==
    IF \A i \in DOMAIN t : t[i] # ":" THEN <<t>>
    ELSE LET k == CHOOSE i \in DOMAIN t :
                     t[i] = ":" /\ \A j \in 1..(i - 1) : t[j] # ":"
         IN <<SubSeq(t, 1, k - 1)>> \o split(SubSeq(t, k + 1, Len(t)))

\* str.isdigit(): not empty, decimal digits only
isdigit(p) ==
    p # << >> /\ \A i \in DOMAIN p : \E d \in DOMAIN Digits : Digits[d] = p[i]

\* int(p) for a string of digits
RECURSIVE int(_)
int(p) ==
    IF p = << >> THEN 0
    ELSE 10 * int(SubSeq(p, 1, Len(p) - 1))
         + (CHOOSE d \in 0..9 : Digits[d + 1] = p[Len(p)])

\* the ValueError of lines 83 and 92
ValueErr == -2

\* lines 80-94
parse_duration(time_str) ==
    LET parts == split(strip(time_str)) IN
    IF ~(\A i \in DOMAIN parts : isdigit(parts[i])) THEN ValueErr
    ELSE IF Len(parts) = 2 THEN int(parts[1]) * 60 + int(parts[2])
    ELSE IF Len(parts) = 3
    THEN int(parts[1]) * 60 * 60 + int(parts[2]) * 60 + int(parts[3])
    ELSE ValueErr

\* ------------------------------------------------ process_response, pieces

\* faulty variant: the early exit looks at the transport error only
NotFound_ErrorOnly(response, error) == error

\* line 284: the early "lyrics NOT found" exit
NotFound(response, error) ==
    error \/ (response.kind = "dict" /\ ~response.id)

\* raised by response["plainLyrics"] when the key is missing
KeyErr == "<KeyError>"

\* faulty variant: the plain text is preferred when it is there
EffectiveLyrics_PlainFirst(response) ==
    IF Truthy(response.plain) THEN response.plain
    ELSE IF Truthy(response.synced) THEN response.synced
    ELSE IF response.plain = Absent THEN KeyErr
    ELSE response.plain

\* lines 301-305: the text taken from the remote record
EffectiveLyrics(response) ==
    IF Truthy(response.synced) THEN response.synced
    ELSE IF response.plain = Absent THEN KeyErr
    ELSE response.plain

\* faulty variant: the arm for a conflict (both stores present, no automatic
\* overwrite) is missing, so such a file is written like any other
Branch_NoConflict(has_metadata_lyrics, has_lrc_file, save_lrc_file, auto_overwrite) ==
    IF has_metadata_lyrics /\ ~has_lrc_file /\ save_lrc_file THEN "b"
    ELSE IF has_lrc_file /\ ~has_metadata_lyrics THEN "c"
    ELSE "none"

\* faulty variant: the arm that backfills the sidecar is missing
Branch_NoBackfill(has_metadata_lyrics, has_lrc_file, save_lrc_file, auto_overwrite) ==
    IF has_lrc_file /\ ~has_metadata_lyrics THEN "c"
    ELSE IF has_metadata_lyrics /\ has_lrc_file /\ ~auto_overwrite THEN "f"
    ELSE "none"

\* lines 311, 313, 319: which arm of the if/elif chain a file takes
Branch(has_metadata_lyrics, has_lrc_file, save_lrc_file, auto_overwrite) ==
    IF has_metadata_lyrics /\ ~has_lrc_file /\ save_lrc_file THEN "b"
    ELSE IF has_lrc_file /\ ~has_metadata_lyrics THEN "c"
    ELSE IF has_metadata_lyrics /\ has_lrc_file /\ ~auto_overwrite THEN "f"
    ELSE "none"

\* faulty variant: the background method is not told apart
IsBackground_Never(method) == FALSE

\* line 320: the background method returns instead of asking
IsBackground(method) == method = "search_on_load"

\* faulty variant: the sidecar is written without the existence check
MayCreateLrc_NoCheck(save_lrc_file, lrc_exists) == save_lrc_file

\* lines 333-334: the sidecar is opened for writing
MayCreateLrc(save_lrc_file, lrc_exists) == save_lrc_file /\ ~lrc_exists

\* faulty variant: the content of the sidecar is read and dropped
ReadLrc_KeepRemote(lyrics, content, outcome) == lyrics

\* lines 314-318: the text read from the sidecar; a failed read is logged
\* and leaves the variable as it was
ReadLrc(lyrics, content, outcome) ==
    IF outcome = "rfail" THEN lyrics ELSE content

\* faulty variant: the exit forgets the decrement
FinallyRequests_Skip(r) == r

\* lines 351-353: the finally clause
FinallyRequests(r) == r - 1

\* the record of one iteration of the loop over linked_files: the stores
\* of the file before and after it, the arm taken, the text chosen, whether
\* the user was asked and what the file system did
NewEvent(st, f, br, ctx) ==
    [file |-> f, branch |-> br, method |-> ctx.method,
     ao |-> ctx.ao, save |-> ctx.save, io |-> "none",
     embBefore |-> st.emb[f], lrcBefore |-> st.lrc[f], lyricsIn |-> st.lyrics,
     asked |-> FALSE, answer |-> FALSE, applied |-> FALSE, text |-> st.lyrics,
     embAfter |-> st.emb[f], lrcAfter |-> st.lrc[f]]

\* lines 332-336: the writes of one file. st.lyrics is the text to apply.
\* open(.., "w") raising OSError is not caught by the handler's except
\* clause; f.write(None) raises TypeError after the file was created.
Apply(st, f, ctx, ev) ==
    LET emb1 == [st.emb EXCEPT ![f] = st.lyrics]
        create == MayCreateLrc(ctx.save, st.lrc[f] # Absent)
        openFails == create /\ ctx.io[f] = "wfail"
        lrc1 == IF create /\ ~openFails
                THEN [st.lrc EXCEPT ![f] = IF st.lyrics = Null THEN "" ELSE st.lyrics]
                ELSE st.lrc
        out1 == IF openFails THEN "propagated"
                ELSE IF create /\ st.lyrics = Null THEN "caught"
                ELSE "run"
    IN [st EXCEPT !.emb = emb1, !.lrc = lrc1, !.out = out1, !.i = st.i + 1,
                  !.trace = Append(st.trace,
                      [ev EXCEPT !.embAfter = emb1[f], !.lrcAfter = lrc1[f],
                                 !.applied = TRUE, !.text = st.lyrics,
                                 !.io = IF openFails THEN "wfail"
                                        ELSE IF create THEN "wrote" ELSE @])]

\* lines 307-336: one iteration of the loop
FileStep(st, ctx) ==
    LET f == linked_files[st.i]
        has_metadata_lyrics == Truthy(st.emb[f])
        has_lrc_file == st.lrc[f] # Absent
        br == Branch(has_metadata_lyrics, has_lrc_file, ctx.save, ctx.ao)
        ev == NewEvent(st, f, br, ctx)
    IN CASE br = "b" ->
              Apply([st EXCEPT !.lyrics = st.emb[f]], f, ctx, ev)
         [] br = "c" ->
              Apply([st EXCEPT !.lyrics = ReadLrc(st.lyrics, st.lrc[f], ctx.io[f])],
                    f, ctx,
                    [ev EXCEPT !.io = IF ctx.io[f] = "rfail" THEN "rfail" ELSE "read"])
         [] br = "f" ->
              IF IsBackground(ctx.method)
              THEN [st EXCEPT !.out = "skipped", !.trace = Append(st.trace, ev)]
              ELSE IF st.lyrics = Null
              THEN \* truncate_text(None): AttributeError, not caught
                   [st EXCEPT !.out = "propagated", !.trace = Append(st.trace, ev)]
              ELSE [st EXCEPT !.out = "confirm", !.ev = [ev EXCEPT !.asked = TRUE]]
         [] OTHER -> Apply(st, f, ctx, ev)

\* lines 306-337: the loop, up to its end, a return, an exception or the
\* confirmation dialog
RECURSIVE RunLoop(_, _)
RunLoop(st, ctx) ==
    IF st.out # "run" THEN st
    ELSE IF st.i > Len(linked_files) THEN [st EXCEPT !.out = "done"]
    ELSE RunLoop(FileStep(st, ctx), ctx)

\* ------------------------------------------------------- callback records

NoEvent ==
    [file |-> 0, branch |-> "", method |-> "", ao |-> FALSE, save |-> FALSE,
     io |-> "none", embBefore |-> Absent, lrcBefore |-> Absent, lyricsIn |-> Null,
     asked |-> FALSE, answer |-> FALSE, applied |-> FALSE, text |-> Null,
     embAfter |-> Absent, lrcAfter |-> Absent]

\* a lookup that was not issued yet / whose callback has returned
Idle(phase) ==
    [method |-> "", phase |-> phase, response |-> NoResponse, lyrics |-> Null,
     i |-> 0, ev |-> NoEvent, trace |-> << >>]

NoQuery == [artist |-> "", title |-> "", album |-> "", length |-> -1]

\* length = None (the track has no ~length)
NoLength == -1

Ctx(method, io) ==
    [method |-> method, io |-> io,
     ao |-> setting.auto_overwrite, save |-> setting.save_lrc_file]

Top == stack[Len(stack)]
Pop == SubSeq(stack, 1, Len(stack) - 1)

\* lines 337-353: how a run of the handler body ends. A run that stops at
\* the confirmation dialog keeps its frame (lyrics, position in the loop);
\* every other end goes through the finally clause.
Finish(c, method, response, st, stk) ==
    /\ emb' = st.emb
    /\ lrc' = st.lrc
    /\ last' = [id |-> c, method |-> method, response |-> response,
                error |-> FALSE, trace |-> st.trace, out |-> st.out,
                query |-> NoQuery]
    /\ IF st.out = "confirm"
       THEN /\ calls' = [calls EXCEPT ![c] =
                   [method |-> method, phase |-> "confirm", response |-> response,
                    lyrics |-> st.lyrics, i |-> st.i, ev |-> st.ev,
                    trace |-> st.trace]]
            /\ stack' = Append(stk, c)
            /\ UNCHANGED <<requests, finalized>>
       ELSE /\ calls' = [calls EXCEPT ![c] = Idle("done")]
            /\ stack' = stk
            /\ requests' = FinallyRequests(requests)
            /\ finalized' = finalized + 1

\* lines 301-337: from the choice of the text to the end of the loop
Body(c, method, response, io, stk) ==
    LET lyrics == EffectiveLyrics(response)
        st0 == [emb |-> emb, lrc |-> lrc, lyrics |-> lyrics, i |-> 1,
                ev |-> NoEvent, trace |-> << >>, out |-> "run"]
    IN IF lyrics = KeyErr
       THEN Finish(c, method, response, [st0 EXCEPT !.out = "caught"], stk)
       ELSE Finish(c, method, response, RunLoop(st0, Ctx(method, io)), stk)

\* ----------------------------------------------------------------- actions

\* lines 228-256: get_lyrics, reached from LrcLibLyricsGet.execute_on_track
\* (502-514) and from search_on_load (489-500). int(None) raises TypeError,
\* which the caller logs.
get_lyrics(method, artist, title, albumName, length) ==
    /\ issued < MaxRequests
    /\ LET q == [artist |-> artist, title |-> title, album |-> albumName,
                 length |-> length]
           ok == length # NoLength /\ artist # "" /\ title # ""
                 /\ albumName # "" /\ length # 0
       IN IF ok
          THEN /\ issued' = issued + 1
               /\ requests' = requests + 1
               /\ calls' = [calls EXCEPT ![issued + 1] =
                               [Idle("awaiting") EXCEPT !.method = method]]
               /\ last' = [id |-> issued + 1, method |-> method,
                           response |-> NoResponse, error |-> FALSE,
                           trace |-> << >>, out |-> "issued", query |-> q]
          ELSE /\ UNCHANGED <<issued, requests, calls>>
               /\ last' = [id |-> 0, method |-> method,
                           response |-> NoResponse, error |-> FALSE,
                           trace |-> << >>, out |-> "rejected", query |-> q]
    /\ UNCHANGED <<emb, lrc, setting, finalized, stack, dur>>

\* lines 258-281: search_lyrics, reached from
\* LrcLibLyricsSearch.execute_on_track (526-535)
search_lyrics(method, artist, title, albumName) ==
    /\ issued < MaxRequests
    /\ LET q == [artist |-> artist, title |-> title, album |-> albumName,
                 length |-> NoLength]
           ok == artist # "" /\ title # "" /\ albumName # ""
       IN IF ok
          THEN /\ issued' = issued + 1
               /\ requests' = requests + 1
               /\ calls' = [calls EXCEPT ![issued + 1] =
                               [Idle("awaiting") EXCEPT !.method = method]]
               /\ last' = [id |-> issued + 1, method |-> method,
                           response |-> NoResponse, error |-> FALSE,
                           trace |-> << >>, out |-> "issued", query |-> q]
          ELSE /\ UNCHANGED <<issued, requests, calls>>
               /\ last' = [id |-> 0, method |-> method,
                           response |-> NoResponse, error |-> FALSE,
                           trace |-> << >>, out |-> "rejected", query |-> q]
    /\ UNCHANGED <<emb, lrc, setting, finalized, stack, dur>>

Names == {"", "a"}

\* track.metadata["~length"] as the host writes it: not set, "0:00", "3:20"
LengthTexts == {<< >>, <<"0", ":", "0", "0">>, <<"3", ":", "2", "0">>}

\* lines 495-497, 509-511: length stays None unless ~length is set
Lengths == {IF t = << >> THEN NoLength ELSE parse_duration(t) : t \in LengthTexts}

\* the context-menu action "Get lyrics automatically"; a modal dialog
\* blocks the menus
GetAction ==
    /\ stack = << >>
    /\ \E artist \in Names, title \in Names, albumName \in Names, length \in Lengths :
          get_lyrics("get", artist, title, albumName, length)

\* the context-menu action "Search lyrics manually"
SearchAction ==
    /\ stack = << >>
    /\ \E artist \in Names, title \in Names, albumName \in Names :
          search_lyrics("search", artist, title, albumName)

\* lines 489-500: the file-added-to-track hook
search_on_load ==
    /\ setting.search_on_load
    /\ \E artist \in Names, title \in Names, albumName \in Names, length \in Lengths :
          get_lyrics("search_on_load", artist, title, albumName, length)

\* lines 413-416: the options page stores the three settings
save ==
    /\ stack = << >>
    /\ \E s \in [search_on_load : BOOLEAN, auto_overwrite : BOOLEAN,
                 save_lrc_file : BOOLEAN] :
          /\ s # setting
          /\ setting' = s
    /\ last' = [id |-> 0, method |-> "", response |-> NoResponse,
                error |-> FALSE, trace |-> << >>, out |-> "save",
                query |-> NoQuery]
    /\ UNCHANGED <<emb, lrc, requests, finalized, issued, calls, stack, dur>>

\* what the callback does once it is past the early exit of line 284
Found(c, method, resp, io) ==
    IF method = "search"
    THEN \* line 297: show_search_table opens the modal picker
         /\ calls' = [calls EXCEPT ![c].phase = "picker"]
         /\ stack' = Append(stack, c)
         /\ last' = [id |-> c, method |-> method, response |-> resp,
                     error |-> FALSE, trace |-> << >>,
                     out |-> "picker", query |-> NoQuery]
         /\ UNCHANGED <<emb, lrc, requests, finalized>>
    ELSE Body(c, method, resp, io, stack)

\* lines 285-292: the early exit
Missing(c, method, resp, error) ==
    /\ requests' = requests - 1
    /\ finalized' = finalized + 1
    /\ calls' = [calls EXCEPT ![c] = Idle("done")]
    /\ last' = [id |-> c, method |-> method, response |-> resp,
                error |-> error, trace |-> << >>,
                out |-> "notfound", query |-> NoQuery]
    /\ UNCHANGED <<emb, lrc, stack>>

\* lines 283-353: the web service delivers the reply of lookup c, with a
\* transport error or with a document
process_response(c) ==
    /\ calls[c].phase = "awaiting"
    /\ LET method == calls[c].method IN
       \/ \E response \in ErrorResponses, io \in [Files -> IOOutcomes] :
             IF NotFound(response, TRUE)
             THEN Missing(c, method, response, TRUE)
             ELSE Found(c, method, response, io)
       \/ \E response \in IF method = "search" THEN {ListResponse} ELSE GetResponses,
             io \in [Files -> IOOutcomes] :
             IF NotFound(response, FALSE)
             THEN Missing(c, method, response, FALSE)
             ELSE Found(c, method, response, io)
    /\ UNCHANGED <<setting, issued, dur>>

\* lines 189-194, 297-299: the picker closes with a row or with nothing
PickerReturn ==
    /\ stack # << >>
    /\ calls[Top].phase = "picker"
    /\ \/ /\ requests' = FinallyRequests(requests)
          /\ finalized' = finalized + 1
          /\ calls' = [calls EXCEPT ![Top] = Idle("done")]
          /\ stack' = Pop
          /\ last' = [id |-> Top, method |-> "search", response |-> NoResponse,
                      error |-> FALSE, trace |-> << >>, out |-> "cancelled",
                      query |-> NoQuery]
          /\ UNCHANGED <<emb, lrc>>
       \/ \E response \in Candidates, io \in [Files -> IOOutcomes] :
             Body(Top, "search", response, io, Pop)
    /\ UNCHANGED <<setting, issued, dur>>

\* lines 98-110, 329-336: the confirmation dialog closes; on Yes the file
\* is written and the loop goes on
ConfirmReturn ==
    /\ stack # << >>
    /\ calls[Top].phase = "confirm"
    /\ \E answer \in BOOLEAN, io \in [Files -> IOOutcomes] :
          LET fr == calls[Top]
              ctx == Ctx(fr.method, io)
              st0 == [emb |-> emb, lrc |-> lrc, lyrics |-> fr.lyrics,
                      i |-> fr.i, ev |-> NoEvent, trace |-> fr.trace,
                      out |-> "run"]
              ev == [fr.ev EXCEPT !.answer = answer]
          IN IF ~answer
             THEN Finish(Top, fr.method, fr.response,
                         [st0 EXCEPT !.out = "denied",
                                     !.trace = Append(fr.trace, ev)], Pop)
             ELSE Finish(Top, fr.method, fr.response,
                         RunLoop(Apply(st0, linked_files[fr.i], ctx, ev), ctx),
                         Pop)
    /\ UNCHANGED <<setting, issued, dur>>

\* no duration is being converted
DurIdle == [pc |-> "idle", s |-> 0, text |-> << >>, secs |-> 0]

\* after construction: any tags and sidecars on disk, any stored settings
Init ==
    /\ dur = DurIdle
    /\ emb \in [Files -> {Absent} \cup {EmbTexts[f] : f \in Files}]
    /\ \A f \in Files : emb[f] \in {Absent, EmbTexts[f]}
    /\ lrc \in [Files -> {Absent} \cup {LrcTexts[f] : f \in Files}]
    /\ \A f \in Files : lrc[f] \in {Absent, LrcTexts[f]}
    /\ setting \in [search_on_load : BOOLEAN, auto_overwrite : BOOLEAN,
                    save_lrc_file : BOOLEAN]
    /\ requests = 0
    /\ finalized = 0
    /\ issued = 0
    /\ calls = [c \in 1..MaxRequests |-> Idle("unissued")]
    /\ stack = << >>
    /\ last = [id |-> 0, method |-> "", response |-> NoResponse,
               error |-> FALSE, trace |-> << >>, out |-> "init",
               query |-> NoQuery]

Next ==
    \/ GetAction
    \/ SearchAction
    \/ search_on_load
    \/ save
    \/ \E c \in 1..MaxRequests : process_response(c)
    \/ PickerReturn
    \/ ConfirmReturn

Spec == Init /\ [][Next]_vars

\* ------------------------------------------- the duration codec on its own

\* largest duration of the dense range, in seconds
MaxDuration == 7300

\* every duration up to two hours, and some with two and three digits of
\* hours
Durations ==
    0..MaxDuration \cup {35999, 36000, 86399, 359999, 360000, 362439}

\* lines 48-64: a duration is rendered (the Length column, line 155)
Format ==
    /\ dur.pc = "idle"
    /\ \E s \in Durations :
          dur' = [pc |-> "formatted", s |-> s, text |-> format_durasi(s), secs |-> 0]
    /\ UNCHANGED <<emb, lrc, setting, requests, finalized, issued, calls, stack, last>>

\* lines 80-94: the rendered text is parsed back
Parse ==
    /\ dur.pc = "formatted"
    /\ dur' = [dur EXCEPT !.pc = "parsed", !.secs = parse_duration(dur.text)]
    /\ UNCHANGED <<emb, lrc, setting, requests, finalized, issued, calls, stack, last>>

\* the plugin as loaded with the defaults of lines 365-367, no lookup issued
DurInit ==
    /\ dur = DurIdle
    /\ emb = [f \in Files |-> Absent]
    /\ lrc = [f \in Files |-> Absent]
    /\ setting = [search_on_load |-> FALSE, auto_overwrite |-> FALSE,
                  save_lrc_file |-> TRUE]
    /\ requests = 0
    /\ finalized = 0
    /\ issued = 0
    /\ calls = [c \in 1..MaxRequests |-> Idle("unissued")]
    /\ stack = << >>
    /\ last = [id |-> 0, method |-> "", response |-> NoResponse,
               error |-> FALSE, trace |-> << >>, out |-> "init",
               query |-> NoQuery]

DurNext == Format \/ Parse

SpecDuration == DurInit /\ [][DurNext]_vars

\* ------------------------------------------------------------- properties

Events == {last.trace[i] : i \in DOMAIN last.trace}

\* the callbacks that were issued and have not returned
Outstanding ==
    {c \in 1..MaxRequests : calls[c].phase \in {"awaiting", "picker", "confirm"}}

\* a found remote record: a JSON object with an id
FoundRemote(r) == r.kind = "dict" /\ r.id

\* C1: no step of the system changes or removes a sidecar that exists: a
\* sidecar is written only by a step before which it did not exist.
C1_NoClobberSidecar ==
    [][\A f \in Files : lrc[f] # Absent => lrc'[f] = lrc[f]]_vars

\* C1 witness: with save_lrc_file on, a text different from the existing
\* sidecar was applied to a file, and a sidecar was created in the same run
C1_Witness ==
    /\ \E e \in Events :
          /\ e.save /\ e.applied
          /\ e.lrcBefore # Absent /\ e.text # e.lrcBefore
          /\ lrc[e.file] = e.lrcBefore
    /\ \E e \in Events : e.io = "wrote" /\ e.lrcBefore = Absent

\* C2: non-empty embedded lyrics are replaced by a different text only if
\* auto_overwrite is on or the user answered the confirmation with yes for
\* that file.
C2_NoSilentDestruction ==
    \A e \in Events :
       (Truthy(e.embBefore) /\ e.embAfter # e.embBefore)
          => (e.ao \/ (e.asked /\ e.answer))

\* C3: the in-flight counter equals the number of outstanding lookups, is
\* never negative, every lookup that is no longer outstanding has called the
\* finalize hook exactly once, and the counter is back at its initial value
\* when no lookup is outstanding.
C3_InFlightCounter ==
    /\ requests = Cardinality(Outstanding)
    /\ requests >= 0
    /\ finalized = issued - Cardinality(Outstanding)
    /\ (Outstanding = {} => requests = 0)

\* C3 witness: a callback has left through an uncaught exception, another
\* lookup has been answered, and nothing is outstanding
C3_Witness ==
    /\ issued > 1
    /\ Outstanding = {}
    /\ last.out = "propagated"

\* C4: when opening the sidecar of a linked file fails, the error stays
\* inside the callback and the files after it are still processed.
C4_IndependentFailure ==
    \A i \in DOMAIN last.trace :
       last.trace[i].io = "wfail"
          => /\ last.out # "propagated"
             /\ (i < NumFiles => Len(last.trace) > i \/ last.out = "confirm")

\* C5: a callback of method search_on_load never opens the confirmation
\* dialog and never builds its prompt: it is never suspended in a dialog and
\* no file of its run was asked about.
C5_BackgroundNeverAsks ==
    /\ \A c \in 1..MaxRequests :
          calls[c].method = "search_on_load" => calls[c].phase \notin {"confirm", "picker"}
    /\ last.method = "search_on_load"
          => /\ last.out \notin {"confirm", "picker", "denied", "cancelled"}
             /\ \A e \in Events : ~e.asked /\ ~e.answer

\* C5 witness: a background run met a file with both stores present while
\* auto_overwrite was off
C5_Witness ==
    /\ last.method = "search_on_load"
    /\ last.out = "skipped"
    /\ \E e \in Events :
          e.branch = "f" /\ Truthy(e.embBefore) /\ e.lrcBefore # Absent /\ ~e.ao

C7_EmptyShortCircuit ==
    (/\ FoundRemote(last.response)
     /\ ~Truthy(last.response.synced)
     /\ ~Truthy(last.response.plain))
       => /\ last.out # "confirm"
          /\ \A e \in Events :
                e.embAfter = e.embBefore /\ e.lrcAfter = e.lrcBefore /\ ~e.asked

\* a delivery with a transport error or with a JSON object without an id
IdlessOrError(l) ==
    l.error \/ (l.response.kind \in {"dict", "emptydict"} /\ ~l.response.id)

\* C8: the callback that is handed a transport error or a JSON object
\* without an id changes no embedded lyrics and no sidecar, opens no dialog
\* and returns; an object with keys, and an error, leave through the "not
\* found" exit.
C8_MissingIdNotFound ==
    [][IdlessOrError(last')
          => /\ emb' = emb /\ lrc' = lrc /\ stack' = stack
             /\ last'.trace = << >>
             /\ calls'[last'.id].phase = "done"
             /\ (last'.error \/ last'.response.kind = "dict"
                    => last'.out = "notfound")]_vars

\* C8 witness: an object without an id that carries lyrics was delivered
\* while a file had neither store and save_lrc_file was on
C8_Witness ==
    /\ last.out = "notfound" /\ ~last.error
    /\ last.response.synced = "S"
    /\ setting.save_lrc_file
    /\ \E f \in Files : emb[f] = Absent /\ lrc[f] = Absent

\* C9: method get, auto_overwrite off, a found record, a file with embedded
\* lyrics and no sidecar: the user is asked before any write, and after a
\* denial the embedded lyrics are unchanged and there is no sidecar.
C9_ScenarioB ==
    \A e \in Events :
       (/\ FoundRemote(last.response)
        /\ e.method = "get" /\ ~e.ao
        /\ Truthy(e.embBefore) /\ e.lrcBefore = Absent)
          => /\ e.asked
             /\ (~e.answer => e.embAfter = e.embBefore /\ e.lrcAfter = Absent)

RemoteText(r) == IF Truthy(r.synced) THEN r.synced ELSE r.plain

\* C11: a file that the loop reaches with no embedded lyrics and no sidecar,
\* under a found record with a non-empty effective text, gets the remote
\* text as embedded lyrics, gets a sidecar with the remote text exactly when
\* save_lrc_file is on (and the file system lets it be opened), and nothing
\* is asked.
C11_BothEmpty ==
    \A e \in Events :
       (/\ FoundRemote(last.response)
        /\ Truthy(RemoteText(last.response))
        /\ ~Truthy(e.embBefore) /\ e.lrcBefore = Absent
        /\ e.io # "wfail")
          => /\ e.applied /\ ~e.asked
             /\ e.embAfter = RemoteText(last.response)
             /\ e.lrcAfter = IF e.save THEN RemoteText(last.response) ELSE Absent

\* C12: a direct lookup is issued only with artist, title, album and
\* duration all non-empty; a search is issued for every non-empty title,
\* that is, it is turned down only when the title is empty.
C12_RequestPreconditions ==
    /\ (last.out = "issued" /\ last.method \in {"get", "search_on_load"})
          => /\ last.query.artist # "" /\ last.query.title # ""
             /\ last.query.album # "" /\ last.query.length > 0
    /\ (last.out = "issued" /\ last.method = "search") => last.query.title # ""
    /\ (last.out = "rejected" /\ last.method = "search") => last.query.title = ""

\* the number of colons of a string
RECURSIVE Colons(_)
Colons(t) ==
    IF t = << >> THEN 0
    ELSE (IF Head(t) = ":" THEN 1 ELSE 0) + Colons(Tail(t))

\* C13: a formatted duration has the form M:SS below one hour and H:MM:SS
\* from one hour on, 3723 seconds read "1:02:03", and parsing the formatted
\* text gives the duration back.
C13_DurationRoundTrip ==
    /\ dur.pc \in {"formatted", "parsed"}
          => LET n == Len(dur.text) IN
             /\ n >= 4
             /\ dur.text[n - 2] = ":"
             /\ Colons(dur.text) = IF dur.s < 3600 THEN 1 ELSE 2
             /\ dur.s >= 3600 => n >= 7 /\ dur.text[n - 5] = ":"
             /\ dur.s = 3723 => dur.text = <<"1", ":", "0", "2", ":", "0", "3">>
    /\ dur.pc = "parsed" => dur.secs = dur.s

\* C13 witness: 3723 seconds went through both functions
C13_Witness ==
    dur.pc = "parsed" /\ dur.s = 3723 /\ dur.secs = 3723 /\ Len(dur.text) = 7

\* the text the classification gives a file from the remote record and the
\* file's own stores alone
OwnText(e, r) ==
    IF Truthy(e.embBefore) /\ e.lrcBefore = Absent /\ e.save THEN e.embBefore
    ELSE IF e.lrcBefore # Absent /\ ~Truthy(e.embBefore) THEN e.lrcBefore
    ELSE RemoteText(r)

\* C14: the text applied to a file depends only on the remote record, the
\* file's own embedded lyrics and sidecar and the settings, not on the other
\* linked files; a file with both stores empty gets the remote text.
C14_PerFileIndependence ==
    \A e \in Events :
       (FoundRemote(last.response) /\ e.applied /\ e.io # "rfail")
          => e.text = OwnText(e, last.response)

\* the loop left a file alone: background skip, or a denied confirmation
LeftAlone(e) ==
    \/ e.branch = "f" /\ e.method = "search_on_load" /\ ~e.applied
    \/ e.asked /\ ~e.answer

\* C15: after a file was skipped or its confirmation denied, the linked
\* files after it are still classified.
C15_SkipIsLocal ==
    \A i \in DOMAIN last.trace :
       (LeftAlone(last.trace[i]) /\ i < Len(linked_files))
          => (Len(last.trace) > i \/ last.out = "confirm")

\* C16: a file whose sidecar could not be read gets no write, the files
\* after it are still processed and the callback still goes through its
\* exit.
C16_ReadFailureAbortsWrite ==
    \A i \in DOMAIN last.trace :
       last.trace[i].io = "rfail"
          => /\ last.trace[i].embAfter = last.trace[i].embBefore
             /\ last.trace[i].lrcAfter = last.trace[i].lrcBefore
             /\ (i < Len(linked_files)
                    => Len(last.trace) > i \/ last.out = "confirm")
             /\ (last.out # "confirm" => calls[last.id].phase = "done")

C18_AutoOverwrite ==
    \A e \in Events :
       (/\ FoundRemote(last.response)
        /\ Truthy(e.embBefore) /\ e.lrcBefore # Absent /\ e.ao)
          => /\ e.applied /\ ~e.asked
             /\ e.embAfter = RemoteText(last.response)
             /\ e.lrcAfter = e.lrcBefore

\* C19: a file with embedded lyrics and a sidecar, auto_overwrite off, an
\* interactive method: the user is asked; after No neither store of the file
\* has changed, after Yes the embedded lyrics are the remote text.
C19_ConfirmedOverwrite ==
    \A e \in Events :
       (/\ FoundRemote(last.response)
        /\ e.method \in {"get", "search"}
        /\ Truthy(e.embBefore) /\ e.lrcBefore # Absent /\ ~e.ao)
          => /\ e.asked
             /\ ~e.answer => e.embAfter = e.embBefore /\ e.lrcAfter = e.lrcBefore
             /\ e.answer => e.embAfter = RemoteText(last.response)
                            /\ e.lrcAfter = e.lrcBefore

\* C20: a step that writes a sidecar finds it absent in that very step, and
\* the iteration that writes it saw it absent at its own existence test: no
\* other callback got between the test and the write. A sidecar is thus
\* created by one callback only and never rewritten by another.
C20_AtomicCheckThenWrite ==
    [][\A f \in Files :
          lrc'[f] # lrc[f]
             => /\ lrc[f] = Absent
                /\ \E e \in {last'.trace[i] : i \in DOMAIN last'.trace} :
                      /\ e.file = f /\ e.io = "wrote"
                      /\ e.lrcBefore = Absent
                      /\ e.lrcAfter = lrc'[f]]_vars

\* C20 witness: while one callback waits in the picker, another one has
\* created a sidecar; and later a callback that was in flight at that time
\* met a sidecar made by the plugin and left it alone
C20_Witness ==
    \/ /\ stack # << >>
       /\ calls[Top].phase = "picker"
       /\ last.id # Top
       /\ \E e \in Events : e.io = "wrote"
    \/ /\ last.method = "search" /\ last.out = "done" /\ issued > 1
       /\ \E e \in Events :
             /\ e.save /\ e.applied
             /\ e.lrcBefore \in {"S", "P"} /\ e.text # e.lrcBefore
             /\ lrc[e.file] = e.lrcBefore

\* the callback has returned (through the loop's end, a return or an
\* exception)
Returned(l) == l.out \in {"done", "skipped", "caught", "propagated"}

\* no read or write of a sidecar failed while the record l was made
NoIOFailure(l) ==
    \A i \in DOMAIN l.trace : l.trace[i].io \notin {"rfail", "wfail"}

\* this step is the second delivery of one remote record with a lyric text:
\* the callback that returned last ran under the same method and settings,
\* and neither run opens a dialog (auto_overwrite on, or the background
\* method; a lookup by "search" goes through the picker)
Replay ==
    /\ Returned(last) /\ Returned(last') /\ last'.id # last.id
    /\ FoundRemote(last.response) /\ Truthy(RemoteText(last.response))
    /\ last'.response = last.response
    /\ last'.method = last.method
    /\ setting.auto_overwrite \/ last.method = "search_on_load"
    /\ \A e \in Events :
          e.ao = setting.auto_overwrite /\ e.save = setting.save_lrc_file

WritesCompleted(e) == e.applied /\ e.io # "wfail" /\ e.text # Null

\* C22 as claimed: whenever the writes for a file completed with
\* save_lrc_file on (and no sidecar read failed), the file's embedded lyrics
\* equal the content of its sidecar.
C22_StoresAgree ==
    \A e \in Events :
       (WritesCompleted(e) /\ e.save /\ e.io # "rfail")
          => e.embAfter = e.lrcAfter

\* C22 as amended: whenever the writes for a file completed with
\* save_lrc_file on and the run created the file's sidecar, or read it to
\* fill the empty embedded lyrics, the file's embedded lyrics equal the
\* content of its sidecar. (A file that had both stores keeps its sidecar
\* when its embedded lyrics are overwritten.)
C22_StoresAgreeWhenFilled ==
    \A e \in Events :
       (WritesCompleted(e) /\ e.save /\ e.io \in {"wrote", "read"})
          => e.embAfter = e.lrcAfter /\ e.embAfter = e.text

\* one delivery, with save_lrc_file on, created the sidecar of one file and
\* read the sidecar of another, and both files hold one text in both stores
C22_Witness ==
    /\ last.out = "done"
    /\ \E e \in Events :
          /\ e.save /\ e.io = "wrote" /\ Truthy(e.text)
          /\ e.lrcBefore = Absent
          /\ emb[e.file] = e.text /\ lrc[e.file] = e.text
    /\ \E e \in Events :
          /\ e.save /\ e.io = "read" /\ ~Truthy(e.embBefore)
          /\ emb[e.file] = e.lrcBefore /\ lrc[e.file] = e.lrcBefore

====
